---- MODULE Spec2Model ----
(***************************************************************************)
(* Model of the user registration service: the Joi request validator       *)
(* (middleware/validation.js) and the two handlers of routes/auth.js,       *)
(* POST /api/auth/register and GET /api/auth/users, running concurrently    *)
(* against one user collection.                                             *)
(*                                                                          *)
(* A string is a sequence of one-character strings, so that the validator's *)
(* length and pattern rules are computed character by character.            *)
(***************************************************************************)
EXTENDS Integers, Sequences, FiniteSets, TLC

VARIABLES req, db, pw, pwErrors

vars == <<req, db, pw, pwErrors>>

(***************************************************************************)
(* Bounds of the model.                                                     *)
(***************************************************************************)
\* number of HTTP requests in flight or answered
MaxReq == 3
\* longest candidate password the password specification enumerates
MaxPwLen == 6

(***************************************************************************)
(* Character classes of the validator's regular expressions.                *)
(***************************************************************************)
Lower == {"a","b","c","d","e","f","g","h","i","j","k","l","m",
          "n","o","p","q","r","s","t","u","v","w","x","y","z"}

Upper == {"A","B","C","D","E","F","G","H","I","J","K","L","M",
          "N","O","P","Q","R","S","T","U","V","W","X","Y","Z"}

Digit == {"0","1","2","3","4","5","6","7","8","9"}

\* \s of the name pattern
Whitespace == {" ", "\t", "\n", "\r"}

\* the characters "." of a JavaScript regular expression does not match
LineTerminator == {"\n", "\r"}

\* [@$!%*?&]
Special == {"@", "$", "!", "%", "*", "?", "&"}

\* [A-Za-z\d@$!%*?&]
PasswordChar == Lower \cup Upper \cup Digit \cup Special

NameMin == 2
NameMax == 50
PhoneLen == 10
PasswordMin == 6
PasswordMax == 128

(***************************************************************************)
(* Regular expressions, computed as the engine matches them.                *)
(***************************************************************************)
\* /^[a-zA-Z\s]+$/
NamePatternMatches(s) ==
    /\ Len(s) >= 1
    /\ \A i \in 1..Len(s) : s[i] \in Lower \cup Upper \cup Whitespace

\* /^[0-9]{10}$/
PhonePatternMatches(s) ==
    /\ Len(s) = PhoneLen
    /\ \A i \in 1..Len(s) : s[i] \in Digit

\* (?=.*[class]) at position 0: some character of the class is preceded only
\* by characters "." matches (no line terminator)
Lookahead(s, class) ==
    \E i \in 1..Len(s) :
        /\ s[i] \in class
        /\ \A j \in 1..(i - 1) : s[j] \notin LineTerminator

\* /^(?=.*[a-z])(?=.*[A-Z])(?=.*\d)(?=.*[@$!%*?&])[A-Za-z\d@$!%*?&]/ :
\* four lookaheads at the start, then ONE character of the class; the
\* expression has no quantifier after the class and no $ anchor
PasswordPatternMatches(s) ==
    /\ Lookahead(s, Lower)
    /\ Lookahead(s, Upper)
    /\ Lookahead(s, Digit)
    /\ Lookahead(s, Special)
    /\ Len(s) >= 1
    /\ s[1] \in PasswordChar

\* Joi's string().email(): one "@", a non-empty local part, and a domain of at
\* least two non-empty dot-separated segments (the address syntax is reduced
\* to this shape)
EmailSyntaxOK(s) ==
    \E at \in 1..Len(s) :
        /\ s[at] = "@"
        /\ \A i \in 1..Len(s) : s[i] = "@" => i = at
        /\ at > 1
        /\ \A i \in 1..Len(s) : s[i] \notin Whitespace
        /\ \E dot \in (at + 2)..(Len(s) - 1) : s[dot] = "."
        /\ s[at + 1] # "."
        /\ s[Len(s)] # "."
        /\ \A i \in (at + 1)..(Len(s) - 1) : ~(s[i] = "." /\ s[i + 1] = ".")

(***************************************************************************)
(* registrationSchema: the violations of each key, in rule order.  With     *)
(* abortEarly: false every violated rule of a value is reported.            *)
(***************************************************************************)
Violation(f, m) == [field |-> f, message |-> m]

One(cond, f, m) == IF cond THEN <<Violation(f, m)>> ELSE <<>>

firstNameErrors(body) ==
    IF "firstName" \notin DOMAIN body
    THEN <<Violation("firstName", "First name is required")>>
    ELSE IF body.firstName = <<>>
    THEN <<Violation("firstName", "\"firstName\" is not allowed to be empty")>>
    ELSE One(Len(body.firstName) < NameMin, "firstName",
             "First name must be at least 2 characters long")
         \o One(Len(body.firstName) > NameMax, "firstName",
                "First name cannot exceed 50 characters")
         \o One(~NamePatternMatches(body.firstName), "firstName",
                "First name can only contain letters and spaces")

lastNameErrors(body) ==
    IF "lastName" \notin DOMAIN body
    THEN <<Violation("lastName", "Last name is required")>>
    ELSE IF body.lastName = <<>>
    THEN <<Violation("lastName", "\"lastName\" is not allowed to be empty")>>
    ELSE One(Len(body.lastName) < NameMin, "lastName",
             "Last name must be at least 2 characters long")
         \o One(Len(body.lastName) > NameMax, "lastName",
                "Last name cannot exceed 50 characters")
         \o One(~NamePatternMatches(body.lastName), "lastName",
                "Last name can only contain letters and spaces")

emailErrors(body) ==
    IF "email" \notin DOMAIN body
    THEN <<Violation("email", "Email is required")>>
    ELSE IF body.email = <<>>
    THEN <<Violation("email", "\"email\" is not allowed to be empty")>>
    ELSE One(~EmailSyntaxOK(body.email), "email",
             "Please enter a valid email address")

phoneNoErrors(body) ==
    IF "phoneNo" \notin DOMAIN body
    THEN <<Violation("phoneNo", "Phone number is required")>>
    ELSE IF body.phoneNo = <<>>
    THEN <<Violation("phoneNo", "\"phoneNo\" is not allowed to be empty")>>
    ELSE One(~PhonePatternMatches(body.phoneNo), "phoneNo",
             "Phone number must be exactly 10 digits")

PasswordPatternMessage ==
    "Password must contain at least one uppercase letter, one lowercase letter, one number, and one special character"

\* the rules of createPassword applied to a present, non-empty string
createPasswordRuleErrors(s) ==
    One(Len(s) < PasswordMin, "createPassword",
        "Password must be at least 6 characters long")
    \o One(Len(s) > PasswordMax, "createPassword",
           "Password cannot exceed 128 characters")
    \o One(~PasswordPatternMatches(s), "createPassword", PasswordPatternMessage)

createPasswordErrors(body) ==
    IF "createPassword" \notin DOMAIN body
    THEN <<Violation("createPassword", "Password is required")>>
    ELSE IF body.createPassword = <<>>
    THEN <<Violation("createPassword", "\"createPassword\" is not allowed to be empty")>>
    ELSE createPasswordRuleErrors(body.createPassword)

\* valid(Joi.ref('createPassword')): the only allowed value is the sibling's
confirmPasswordErrors(body) ==
    IF "confirmPassword" \notin DOMAIN body
    THEN <<Violation("confirmPassword", "Confirm password is required")>>
    ELSE One(~("createPassword" \in DOMAIN body
               /\ body.confirmPassword = body.createPassword),
             "confirmPassword", "Confirm password must match the password")

\* registrationSchema.validate(req.body, {abortEarly: false, stripUnknown: true})
registrationSchemaErrors(body) ==
    firstNameErrors(body) \o lastNameErrors(body) \o emailErrors(body)
    \o phoneNoErrors(body) \o createPasswordErrors(body)
    \o confirmPasswordErrors(body)

(***************************************************************************)
(* Request payloads the clients send.                                       *)
(***************************************************************************)
Email1 == <<"j","o","@","x",".","i","o">>
Email2 == <<"a","m","@","x",".","i","o">>
Phone1 == <<"1","2","3","4","5","6","7","8","9","0">>
Phone2 == <<"9","8","7","6","5","4","3","2","1","0">>
GoodPassword == <<"A","b","c","1","2","3","!","@">>
WeakPassword == <<"p","a","s","s","w","o","r","d","1","2","3">>

Payload(fn, ln, e, p, pass, confirm) ==
    [firstName |-> fn, lastName |-> ln, email |-> e, phoneNo |-> p,
     createPassword |-> pass, confirmPassword |-> confirm]

Jo(p) == Payload(<<"J","o">>, <<"D","o","e">>, Email1, p, GoodPassword, GoodPassword)

Amy(p) == Payload(<<"A","m","y">>, <<"L","e","e">>, Email2, p, GoodPassword, GoodPassword)

\* a payload whose password has no uppercase letter and no special character
WeakPayload ==
    Payload(<<"J","o">>, <<"D","o","e">>, Email1, Phone2, WeakPassword, WeakPassword)

\* a payload without confirmPassword and with a one-letter first name
NoConfirmPayload ==
    [firstName |-> <<"A">>, lastName |-> <<"L","e","e">>, email |-> Email2,
     phoneNo |-> Phone1, createPassword |-> GoodPassword]

Payloads == {Jo(Phone1), Jo(Phone2), Amy(Phone1), Amy(Phone2),
             WeakPayload, NoConfirmPayload}

\* the characters candidate passwords are typed from
PwAlphabet == {"a", "A", "1", "@", "#"}

(***************************************************************************)
(* The store: the user collection, its documents and its errors.            *)
(***************************************************************************)
\* what findOne resolves to when no document matches
Null == [_id |-> 0]

NoError == [name |-> "", code |-> 0, keyPattern |-> <<>>, errors |-> <<>>, message |-> ""]

\* the server rejects an insert that repeats a unique key
DuplicateKeyError(key) ==
    [name |-> "MongoServerError", code |-> 11000, keyPattern |-> <<key>>,
     errors |-> <<>>, message |-> "E11000 duplicate key error collection: users"]

\* the connection is lost or the operation times out
NetworkError ==
    [name |-> "MongoNetworkError", code |-> 0, keyPattern |-> <<>>,
     errors |-> <<>>, message |-> "connection to 127.0.0.1:27017 timed out"]

\* a validator of the model's schema rejects the document on save
SchemaValidationError ==
    [name |-> "ValidationError", code |-> 0, keyPattern |-> <<>>,
     errors |-> <<[path |-> "password",
                   message |-> "Path password is shorter than the minimum allowed length"]>>,
     message |-> "User validation failed"]

\* one-way salted hash of the password, applied before the document is stored
Hash(password) == <<"$2b$10$">> \o password

\* the unique indexes the insert of doc into store would violate
UniqueViolationsNone(store, doc) == {}

UniqueViolations(store, doc) ==
    {key \in {"email", "phoneNo"} :
        \E i \in 1..Len(store) : store[i][key] = doc[key]}

\* the document as the response carries it: the password is left out
toJSON(user) == [k \in DOMAIN user \ {"password"} |-> user[k]]

(***************************************************************************)
(* validateRegistration                                                     *)
(***************************************************************************)
ValidationAlwaysPasses(body) == TRUE

\* if (error) ... else next()
ValidationPasses(body) == registrationSchemaErrors(body) = <<>>

ValidationFailed(errors) ==
    [status |-> 400, success |-> FALSE, message |-> "Validation failed",
     errors |-> errors]

(***************************************************************************)
(* router.post('/register')                                                 *)
(***************************************************************************)
\* the documents User.findOne({$or: [{email}, {phoneNo}]}) may resolve to: one
\* matching document, which one is the store's choice, or null
findOne(store, email, phoneNo) ==
    LET matching == {i \in 1..Len(store) :
                        store[i].email = email \/ store[i].phoneNo = phoneNo}
    IN  IF matching = {} THEN {Null} ELSE {store[i] : i \in matching}

AlreadyExists(existingUser, email) ==
    [status |-> 400, success |-> FALSE, message |-> "User already exists",
     errors |-> <<[field |-> IF existingUser.email = email THEN "email" ELSE "phoneNo",
                   message |-> IF existingUser.email = email
                               THEN "Email is already registered"
                               ELSE "Phone number is already registered"]>>]

NewUserSwapped(id, body) ==
    [_id |-> id, firstName |-> body.lastName, lastName |-> body.firstName,
     email |-> body.email, phoneNo |-> body.phoneNo,
     password |-> body.createPassword]

\* new User({firstName, lastName, email, phoneNo, password: createPassword})
NewUser(id, body) ==
    [_id |-> id, firstName |-> body.firstName, lastName |-> body.lastName,
     email |-> body.email, phoneNo |-> body.phoneNo,
     password |-> body.createPassword]

CreatedRaw(user) ==
    [status |-> 201, success |-> TRUE, message |-> "User registered successfully",
     data |-> user]

\* res.status(201).json({success, message, data: user})
Created(user) ==
    [status |-> 201, success |-> TRUE, message |-> "User registered successfully",
     data |-> toJSON(user)]

\* `${field} is already registered`
AlreadyRegistered(field) ==
    CASE field = "email" -> "email is already registered"
      [] field = "phoneNo" -> "phoneNo is already registered"
      [] OTHER -> " is already registered"

ServerError ==
    [status |-> 500, success |-> FALSE, message |-> "Internal server error",
     errors |-> <<[field |-> "server",
                   message |-> "Something went wrong. Please try again later."]>>]

RegisterCatchNoDuplicate(error) ==
    IF error.name = "ValidationError"
    THEN ValidationFailed([i \in 1..Len(error.errors) |->
                              [field |-> error.errors[i].path,
                               message |-> error.errors[i].message]])
    ELSE ServerError

RegisterCatchLeaky(error) ==
    IF error.name = "ValidationError"
    THEN ValidationFailed([i \in 1..Len(error.errors) |->
                              [field |-> error.errors[i].path,
                               message |-> error.errors[i].message]])
    ELSE IF error.code = 11000
    THEN [status |-> 400, success |-> FALSE, message |-> "User already exists",
          errors |-> <<[field |-> error.keyPattern[1],
                        message |-> AlreadyRegistered(error.keyPattern[1])]>>]
    ELSE [status |-> 500, success |-> FALSE, message |-> error.message,
          errors |-> <<[field |-> "server", message |-> error.message]>>]

\* the catch block of the handler
RegisterCatch(error) ==
    IF error.name = "ValidationError"
    THEN ValidationFailed([i \in 1..Len(error.errors) |->
                              [field |-> error.errors[i].path,
                               message |-> error.errors[i].message]])
    ELSE IF error.code = 11000
    THEN LET field == error.keyPattern[1]
         IN  [status |-> 400, success |-> FALSE, message |-> "User already exists",
              errors |-> <<[field |-> field, message |-> AlreadyRegistered(field)]>>]
    ELSE ServerError

SaveReplyNoAwait(user, error) == Created(user)

\* await user.save(), then the 201 response; a rejection goes to the catch block
SaveReply(user, error) ==
    IF error = NoError THEN Created(user) ELSE RegisterCatch(error)

(***************************************************************************)
(* router.get('/users')                                                     *)
(***************************************************************************)
selectAll(doc) == doc

\* .select('-password')
select(doc) == [k \in DOMAIN doc \ {"password"} |-> doc[k]]

UsersOk(users) ==
    [status |-> 200, success |-> TRUE, message |-> "Users retrieved successfully",
     data |-> users]

UsersCatch(error) ==
    [status |-> 500, success |-> FALSE, message |-> "Internal server error"]

(***************************************************************************)
(* State.  req[r] is request r: its kind, where its handler stands, its     *)
(* payload, the error its store operation ended with, and its response.     *)
(* db is the user collection in insertion order.                            *)
(***************************************************************************)
Requests == 1..MaxReq

NoBody == [none |-> TRUE]

NoResponse == [status |-> 0]

Idle == [kind |-> "none", pc |-> "idle", body |-> NoBody, err |-> NoError,
         resp |-> NoResponse]

Init ==
    /\ req = [r \in Requests |-> Idle]
    /\ db = <<>>
    /\ pw = <<>>
    /\ pwErrors = <<>>

\* requests are numbered in the order they arrive
Arrives(r) ==
    /\ req[r].pc = "idle"
    /\ IF r = 1 THEN TRUE ELSE req[r - 1].pc # "idle"

\* POST /api/auth/register: the middleware, then the handler up to its first await
PostRegister(r, body) ==
    /\ Arrives(r)
    /\ req' = [req EXCEPT ![r] =
                 IF ValidationPasses(body)
                 THEN [kind |-> "register", pc |-> "findOne", body |-> body,
                       err |-> NoError, resp |-> NoResponse]
                 ELSE [kind |-> "register", pc |-> "done", body |-> body,
                       err |-> NoError,
                       resp |-> ValidationFailed(registrationSchemaErrors(body))]]
    /\ UNCHANGED <<db, pw, pwErrors>>

\* the existence query resolves: conflict response, or the handler goes on to save
FindOneResolves(r) ==
    /\ req[r].pc = "findOne"
    /\ \E existingUser \in findOne(db, req[r].body.email, req[r].body.phoneNo) :
          req' = [req EXCEPT ![r] =
                    IF existingUser # Null
                    THEN [@ EXCEPT !.pc = "done",
                                   !.resp = AlreadyExists(existingUser, req[r].body.email)]
                    ELSE [@ EXCEPT !.pc = "save"]]
    /\ UNCHANGED <<db, pw, pwErrors>>

\* the existence query rejects
FindOneRejects(r) ==
    /\ req[r].pc = "findOne"
    /\ req' = [req EXCEPT ![r] = [@ EXCEPT !.pc = "done", !.err = NetworkError,
                                            !.resp = RegisterCatch(NetworkError)]]
    /\ UNCHANGED <<db, pw, pwErrors>>

\* the document user.save() stores and leaves in memory: the password hashed
PreSave(user) == [user EXCEPT !.password = Hash(user.password)]

\* user.save() resolves: the store inserts the document
SaveResolves(r) ==
    /\ req[r].pc = "save"
    /\ LET user == PreSave(NewUser(r, req[r].body))
       IN  /\ UniqueViolations(db, user) = {}
           /\ db' = Append(db, user)
           /\ req' = [req EXCEPT ![r] = [@ EXCEPT !.pc = "done",
                                                  !.resp = SaveReply(user, NoError)]]
    /\ UNCHANGED <<pw, pwErrors>>

\* user.save() rejects with a duplicate key: another writer holds the email or phone
SaveRejectsDuplicate(r) ==
    /\ req[r].pc = "save"
    /\ LET user == PreSave(NewUser(r, req[r].body))
       IN  \E key \in UniqueViolations(db, user) :
              req' = [req EXCEPT ![r] =
                        [@ EXCEPT !.pc = "done", !.err = DuplicateKeyError(key),
                                  !.resp = SaveReply(user, DuplicateKeyError(key))]]
    /\ UNCHANGED <<db, pw, pwErrors>>

\* user.save() rejects for another reason
SaveRejects(r, error) ==
    /\ req[r].pc = "save"
    /\ req' = [req EXCEPT ![r] =
                 [@ EXCEPT !.pc = "done", !.err = error,
                           !.resp = SaveReply(PreSave(NewUser(r, req[r].body)), error)]]
    /\ UNCHANGED <<db, pw, pwErrors>>

\* GET /api/auth/users: the handler up to its await
GetUsers(r) ==
    /\ Arrives(r)
    /\ req' = [req EXCEPT ![r] = [kind |-> "users", pc |-> "find", body |-> NoBody,
                                  err |-> NoError, resp |-> NoResponse]]
    /\ UNCHANGED <<db, pw, pwErrors>>

\* User.find().select('-password') resolves
FindResolves(r) ==
    /\ req[r].pc = "find"
    /\ req' = [req EXCEPT ![r] =
                 [@ EXCEPT !.pc = "done",
                           !.resp = UsersOk([i \in 1..Len(db) |-> select(db[i])])]]
    /\ UNCHANGED <<db, pw, pwErrors>>

\* User.find() rejects
FindRejects(r) ==
    /\ req[r].pc = "find"
    /\ req' = [req EXCEPT ![r] = [@ EXCEPT !.pc = "done", !.err = NetworkError,
                                            !.resp = UsersCatch(NetworkError)]]
    /\ UNCHANGED <<db, pw, pwErrors>>

Next ==
    \/ \E r \in Requests, body \in Payloads : PostRegister(r, body)
    \/ \E r \in Requests : FindOneResolves(r)
    \/ \E r \in Requests : FindOneRejects(r)
    \/ \E r \in Requests : SaveResolves(r)
    \/ \E r \in Requests : SaveRejectsDuplicate(r)
    \/ \E r \in Requests, error \in {NetworkError, SchemaValidationError} :
          SaveRejects(r, error)
    \/ \E r \in Requests : GetUsers(r)
    \/ \E r \in Requests : FindResolves(r)
    \/ \E r \in Requests : FindRejects(r)

Spec == Init /\ [][Next]_vars

(***************************************************************************)
(* The createPassword rule applied to every string over PwAlphabet of       *)
(* length up to MaxPwLen, one character typed at a time.                    *)
(***************************************************************************)
PwInit ==
    /\ req = [r \in Requests |-> Idle]
    /\ db = <<>>
    /\ pw = <<>>
    /\ pwErrors = createPasswordErrors([createPassword |-> <<>>])

TypePassword(c) ==
    /\ Len(pw) < MaxPwLen
    /\ pw' = Append(pw, c)
    /\ pwErrors' = createPasswordErrors([createPassword |-> pw'])
    /\ UNCHANGED <<req, db>>

PwNext == \E c \in PwAlphabet : TypePassword(c)

SpecPw == PwInit /\ [][PwNext]_vars

(***************************************************************************)
(* Properties.                                                              *)
(***************************************************************************)
Registered(r) == req[r].kind = "register" /\ req[r].pc = "done"

\* r's store operation was rejected for a reason other than a duplicate key
StoreFailed(r) == req[r].err # NoError /\ req[r].err.code # 11000

HasStored(store, key, value) == \E i \in 1..Len(store) : store[i][key] = value

\* C1: no two stored user records share an email and no two share a phoneNo,
\* in every reachable state, whatever the interleaving of the registrations.
C1_UniqueEmailAndPhone ==
    \A i, j \in 1..Len(db) :
        i # j => db[i].email # db[j].email /\ db[i].phoneNo # db[j].phoneNo

\* two records are stored and a third registration lost the race at write time
C1_Witness ==
    /\ Len(db) = 2
    /\ \E r \in Requests : Registered(r) /\ req[r].err.code = 11000

\* two answered valid registrations with one phoneNo and two emails, neither
\* hit by a store failure, no record of another request holding their keys
SamePhonePair(r1, r2) ==
    /\ r1 # r2
    /\ Registered(r1) /\ Registered(r2)
    /\ registrationSchemaErrors(req[r1].body) = <<>>
    /\ registrationSchemaErrors(req[r2].body) = <<>>
    /\ req[r1].body.phoneNo = req[r2].body.phoneNo
    /\ req[r1].body.email # req[r2].body.email
    /\ ~StoreFailed(r1) /\ ~StoreFailed(r2)
    /\ \A i \in 1..Len(db) :
          db[i]._id \notin {r1, r2} =>
             /\ db[i].email \notin {req[r1].body.email, req[r2].body.email}
             /\ db[i].phoneNo # req[r1].body.phoneNo

\* C2: of two registrations with the same phoneNo and distinct emails, in every
\* interleaving of their findOne and save steps, exactly one ends with 201 and
\* the other with the 400 conflict outcome.
C2_ExactlyOneSucceeds ==
    \A r1, r2 \in Requests :
        SamePhonePair(r1, r2) =>
            \E w, l \in {r1, r2} :
                /\ w # l
                /\ req[w].resp.status = 201
                /\ req[l].resp.status = 400
                /\ req[l].resp.message = "User already exists"

\* both passed the existence check before either wrote: the loser was rejected
\* by the store
C2_Witness ==
    \E r1, r2 \in Requests :
        /\ SamePhonePair(r1, r2)
        /\ req[r1].resp.status = 201
        /\ req[r2].err.code = 11000

\* C3: the conflict response of the existence check names 'email' whenever some
\* stored record has the request's email, also when another stored record has
\* its phoneNo; it names 'phoneNo' only when no stored record has the email.
C3_EmailTakesPrecedence ==
    [][\A r \in Requests :
          (/\ req[r].pc = "findOne"
           /\ req'[r].pc = "done"
           /\ req'[r].err = NoError
           /\ req'[r].resp.status = 400)
          => req'[r].resp.errors[1].field =
                IF HasStored(db, "email", req[r].body.email)
                THEN "email" ELSE "phoneNo"]_vars

\* C4: a duplicate-key rejection of the write is answered with the conflict
\* outcome (400, 'User already exists', one error entry) naming the field the
\* store reported, a field a stored record does hold, and never with 500.
C4_DuplicateKeyIsConflict ==
    \A r \in Requests :
        (Registered(r) /\ req[r].err.code = 11000) =>
            /\ req[r].resp.status = 400
            /\ req[r].resp.success = FALSE
            /\ req[r].resp.message = "User already exists"
            /\ Len(req[r].resp.errors) = 1
            /\ req[r].resp.errors[1].field = req[r].err.keyPattern[1]
            /\ HasStored(db, req[r].resp.errors[1].field,
                         req[r].body[req[r].resp.errors[1].field])

\* a registration rejected by the store on its phoneNo index
C4_Witness ==
    \E r \in Requests :
        /\ Registered(r)
        /\ req[r].err.code = 11000
        /\ req[r].err.keyPattern = <<"phoneNo">>

\* r's handler ends in this step
Ends(r) == req[r].pc # "done" /\ req'[r].pc = "done"

\* C5: the collection changes only by the insert of one record, in the step in
\* which a registration that passed validation and the existence check ends
\* with 201; a step that ends a request otherwise, registration or listing,
\* leaves it unchanged; a payload that fails validation is answered at once,
\* its handler never reaching the store.
C5_OnlyRegistrationAdds ==
    [][/\ (db' # db =>
             \E a \in Requests :
                 /\ req[a].pc = "save"
                 /\ registrationSchemaErrors(req[a].body) = <<>>
                 /\ Ends(a)
                 /\ req'[a].resp.status = 201
                 /\ Len(db') = Len(db) + 1
                 /\ SubSeq(db', 1, Len(db)) = db
                 /\ db'[Len(db')].email = req[a].body.email)
       /\ (\A r \in Requests :
             (Ends(r) /\ req'[r].resp.status # 201) => db' = db)
       /\ (\A r \in Requests :
             (req'[r].kind = "register"
              /\ registrationSchemaErrors(req'[r].body) # <<>>)
             => (/\ req'[r].pc = "done"
                 /\ req'[r].resp.status = 400
                 /\ req'[r].resp.message = "Validation failed"
                 /\ (req[r].pc = "idle" => db' = db)))]_vars

\* a record is stored, one payload was turned down by the validator, one
\* registration met a conflict
C5_Witness ==
    /\ Len(db) = 1
    /\ \E r \in Requests :
          Registered(r) /\ registrationSchemaErrors(req[r].body) # <<>>
    /\ \E r \in Requests :
          Registered(r) /\ req[r].resp.status = 400
          /\ req[r].resp.message = "User already exists"

HasClass(s, class) == \E i \in 1..Len(s) : s[i] \in class

HasFourClasses(s) ==
    /\ HasClass(s, Lower) /\ HasClass(s, Upper)
    /\ HasClass(s, Digit) /\ HasClass(s, Special)

\* C6: the createPassword rule accepts every string of length 6 to 128 with a
\* lowercase letter, an uppercase letter, a digit and a character of @$!%*?&,
\* whatever its first or other characters, and rejects with the pattern
\* violation every string missing one of the four classes.
C6_PasswordRule ==
    /\ (Len(pw) >= 6 /\ Len(pw) <= 128 /\ HasFourClasses(pw)) => pwErrors = <<>>
    /\ (Len(pw) >= 1 /\ ~HasFourClasses(pw)) =>
          \E i \in 1..Len(pwErrors) : pwErrors[i].message = PasswordPatternMessage

\* C7: the 200 response of the listing carries every record stored when the
\* query ran, and no record of it has a password field.
C7_ListingCompleteNoPassword ==
    [][\A r \in Requests :
          (req[r].pc = "find" /\ req'[r].pc = "done" /\ req'[r].resp.status = 200)
          => /\ \A i \in 1..Len(db) :
                   \E j \in 1..Len(req'[r].resp.data) :
                       /\ req'[r].resp.data[j]._id = db[i]._id
                       /\ req'[r].resp.data[j].email = db[i].email
                       /\ req'[r].resp.data[j].phoneNo = db[i].phoneNo
             /\ \A j \in 1..Len(req'[r].resp.data) :
                   "password" \notin DOMAIN req'[r].resp.data[j]]_vars

\* a listing answered with two records
C7_Witness ==
    \E r \in Requests :
        /\ req[r].kind = "users"
        /\ req[r].resp.status = 200
        /\ Len(req[r].resp.data) = 2

\* C8: the data of every 201 response has the submitted firstName, lastName,
\* email and phoneNo and no password key, and none of its values is the raw
\* createPassword or its stored form.
C8_CreatedWithoutPassword ==
    \A r \in Requests :
        (req[r].kind = "register" /\ req[r].resp.status = 201) =>
            LET data == req[r].resp.data
                body == req[r].body
            IN  /\ "password" \notin DOMAIN data
                /\ data.firstName = body.firstName
                /\ data.lastName = body.lastName
                /\ data.email = body.email
                /\ data.phoneNo = body.phoneNo
                /\ \A k \in DOMAIN data \ {"_id"} :
                      /\ data[k] # body.createPassword
                      /\ \A i \in 1..Len(db) : data[k] # db[i].password

\* a registration answered with 201
C8_Witness ==
    \E r \in Requests : req[r].kind = "register" /\ req[r].resp.status = 201

\* C9: a listing answered with 200 carries, for every registration that ended
\* with 201 before the listing's query ran, a record with the firstName,
\* lastName, email and phoneNo that registration submitted.
C9_RegisteredUserListed ==
    [][\A r \in Requests :
          (req[r].pc = "find" /\ req'[r].pc = "done" /\ req'[r].resp.status = 200)
          => \A u \in Requests :
                (req[u].kind = "register" /\ req[u].resp.status = 201) =>
                    \E j \in 1..Len(req'[r].resp.data) :
                        /\ req'[r].resp.data[j].firstName = req[u].body.firstName
                        /\ req'[r].resp.data[j].lastName = req[u].body.lastName
                        /\ req'[r].resp.data[j].email = req[u].body.email
                        /\ req'[r].resp.data[j].phoneNo = req[u].body.phoneNo]_vars

\* a listing that arrived after two registrations and carries the first one's
\* record
C9_Witness ==
    \E u \in Requests, r \in Requests :
        /\ req[u].kind = "register" /\ req[u].resp.status = 201
        /\ r > u + 1
        /\ req[r].kind = "users" /\ req[r].resp.status = 200
        /\ \E j \in 1..Len(req[r].resp.data) : req[r].resp.data[j]._id = u

GenericRegisterFailure ==
    [status |-> 500, success |-> FALSE, message |-> "Internal server error",
     errors |-> <<[field |-> "server",
                   message |-> "Something went wrong. Please try again later."]>>]

GenericListingFailure ==
    [status |-> 500, success |-> FALSE, message |-> "Internal server error"]

\* C10 as stated: every store failure of a registration other than the
\* duplicate key ends in the generic 500 response, and so does every store
\* failure of a listing.
C10_EveryStoreFailureIsGeneric ==
    \A r \in Requests :
        (req[r].pc = "done" /\ StoreFailed(r)) =>
            IF req[r].kind = "register"
            THEN req[r].resp = GenericRegisterFailure
            ELSE req[r].resp = GenericListingFailure

\* C10 as amended: a rejection named ValidationError ends in 400 'Validation
\* failed' with the store's paths and messages; every other store failure of a
\* registration but the duplicate key, and every store failure of a listing,
\* ends in the generic 500 response.
C10_StoreFailureOutcome ==
    \A r \in Requests :
        (req[r].pc = "done" /\ StoreFailed(r)) =>
            IF req[r].kind = "users"
            THEN req[r].resp = GenericListingFailure
            ELSE IF req[r].err.name = "ValidationError"
            THEN /\ req[r].resp.status = 400
                 /\ req[r].resp.message = "Validation failed"
                 /\ Len(req[r].resp.errors) = Len(req[r].err.errors)
                 /\ \A i \in 1..Len(req[r].err.errors) :
                       /\ req[r].resp.errors[i].field = req[r].err.errors[i].path
                       /\ req[r].resp.errors[i].message = req[r].err.errors[i].message
            ELSE /\ req[r].resp = GenericRegisterFailure
                 /\ req[r].resp.message # req[r].err.message

\* one registration failed on the connection, one on a schema validator, and a
\* listing failed
C10_Witness ==
    /\ \E r \in Requests :
          Registered(r) /\ req[r].err.name = "MongoNetworkError"
    /\ \E r \in Requests :
          Registered(r) /\ req[r].err.name = "ValidationError"
    /\ \E r \in Requests :
          req[r].kind = "users" /\ req[r].pc = "done" /\ StoreFailed(r)

====
